---- MODULE Spec2Model ----
(***************************************************************************)
(* The vector index lifecycle of faiss_api: FaissIndexStore                *)
(* (src/faiss_api/index_store.py) and the lifecycle code of the Flask      *)
(* application (src/faiss_api/app.py).                                     *)
(*                                                                         *)
(* SpecStore drives one FaissIndexStore through its public methods, one    *)
(* call after the other.  Spec is the application: the start-up build      *)
(* thread, the background rebuild tasks and the request handlers, which    *)
(* interleave on the module globals _index, _index_ready, _index_progress  *)
(* and _index_error.                                                       *)
(***************************************************************************)
EXTENDS Integers, Sequences, FiniteSets, TLC

----------------------------------------------------------------------------
(* Bounds of the model *)

\* largest number of vectors a store of SpecStore is grown to, and the
\* longest item list handed to rebuild
MaxLen == 2
\* largest top_k of a search
MaxK == 3

\* product ids
Ids == {1, 2}
\* values of a vector component; every value is a float32, so that the
\* astype("float32") of add, rebuild and search leaves it as it is
Comps == {0, 1}
\* embedding dimensions
Dims == {1, 2}

RECURSIVE Dot(_, _, _)
Dot(v, q, i) == IF i = 0 THEN 0 ELSE v[i] * q[i] + Dot(v, q, i - 1)

\* the embeddings of dimension d: L2-normalised by _normalize, norm 1
Vectors(d) == {v \in [1..d -> Comps] : Dot(v, v, d) = 1}
AllVectors == UNION {Vectors(d) : d \in Dims}

Range(f) == {f[i] : i \in DOMAIN f}

RECURSIVE SeqsUpTo(_, _)
SeqsUpTo(S, n) ==
    IF n = 0 THEN {<<>>}
    ELSE LET shorter == SeqsUpTo(S, n - 1)
         IN  shorter \cup {Append(q, x) : q \in {r \in shorter : Len(r) = n - 1}, x \in S}

\* the item lists a caller hands to rebuild: (product_id, vector) pairs
ItemLists == SeqsUpTo(Ids \X AllVectors, MaxLen)

----------------------------------------------------------------------------
(* The FAISS index: IndexFlatIP *)

\* faiss.IndexFlatIP(dim): d, and the stored vectors xb in insertion order.
\* owner is history: the id the caller supplied together with each vector;
\* the index itself has no notion of id.
IndexFlatIP(dim) == [d |-> dim, xb |-> <<>>, owner |-> <<>>]

\* index.add(x) of the faiss Python wrapper: n, d = x.shape; assert d == self.d
index_add_ok(index, vecs) == \A i \in 1..Len(vecs) : Len(vecs[i]) = index.d

index_add(index, vecs, ids) ==
    [index EXCEPT !.xb = @ \o vecs, !.owner = @ \o ids]


\* the inner product of the stored vector at pos with the query
Score(index, q, pos) == Dot(index.xb[pos], q, index.d)

Min(a, b) == IF a < b THEN a ELSE b

\* index.search(q, k): the labels row I[0] without its -1 padding.  FAISS
\* returns the k best inner products in descending order and does not fix
\* the order of equal scores, nor which of several equal scores at the cut
\* is kept: every such row is a possible result.
IndexSearch(index, q, k) ==
    LET n == Len(index.xb)
        m == Min(k, n)
    IN  {I \in [1..m -> 1..n] :
            /\ \A i, j \in 1..m : i # j => I[i] # I[j]
            /\ \A i \in 1..m : \A j \in 1..m :
                   i < j => Score(index, q, I[i]) >= Score(index, q, I[j])
            /\ \A p \in 1..n :
                   (\A i \in 1..m : I[i] # p) =>
                       \A i \in 1..m : Score(index, q, I[i]) >= Score(index, q, p)}

----------------------------------------------------------------------------
(* The persisted artifacts: products_index.bin and mapping.json *)

RECURSIVE Flatten(_)
Flatten(xb) == IF xb = <<>> THEN <<>> ELSE Head(xb) \o Flatten(Tail(xb))

\* faiss.write_index of a flat index: the header (d, ntotal) and the
\* vectors as one array of d * ntotal components
write_index(index) ==
    [state |-> "ok", d |-> index.d, ntotal |-> Len(index.xb),
     codes |-> Flatten(index.xb), owner |-> index.owner]

\* read_index with the stride of the array forgotten
read_index_stride(file) ==
    [d |-> file.d,
     xb |-> [i \in 1..file.ntotal |->
                [j \in 1..file.d |-> file.codes[IF i - 1 + j <= Len(file.codes)
                                                 THEN i - 1 + j ELSE 1]]],
     owner |-> file.owner]

\* faiss.read_index: the array cut back into ntotal vectors of d components
read_index(file) ==
    [d |-> file.d,
     xb |-> [i \in 1..file.ntotal |->
                [j \in 1..file.d |-> file.codes[(i - 1) * file.d + j]]],
     owner |-> file.owner]

\* a path at which no file exists, and a file that cannot be read back
\* (truncated by a write that failed)
NoIndexFile == [state |-> "none", d |-> 0, ntotal |-> 0, codes |-> <<>>, owner |-> <<>>]
BadIndexFile == [state |-> "corrupt", d |-> 0, ntotal |-> 0, codes |-> <<>>, owner |-> <<>>]
\* json.dump(self.mapping, f): the list of ids
json_dump(mapping) == [state |-> "ok", ids |-> mapping]
json_load(file) == file.ids
NoMappingFile == [state |-> "none", ids |-> <<>>]
BadMappingFile == [state |-> "corrupt", ids |-> <<>>]

EmptyDisk == [index |-> NoIndexFile, mapping |-> NoMappingFile]

----------------------------------------------------------------------------
(* FaissIndexStore *)

\* __init__
FaissIndexStore(dim) == [dim |-> dim, index |-> IndexFlatIP(dim), mapping |-> <<>>]

\* the places at which save can fail
SaveFailures == {"none", "makedirs", "write_index", "open", "dump"}

\* save, write by write: makedirs and write_index, then open(MAPPING_PATH,
\* "w") and json.dump.  A write that fails leaves its file truncated; an
\* open that fails leaves the mapping file of the save before.
save_index(st, d, fail) ==
    CASE fail = "makedirs"    -> [raised |-> TRUE, disk |-> d]
      [] fail = "write_index" -> [raised |-> TRUE, disk |-> [d EXCEPT !.index = BadIndexFile]]
      [] OTHER                -> [raised |-> FALSE,
                                  disk |-> [d EXCEPT !.index = write_index(st.index)]]

save_mapping(st, d, fail) ==
    IF fail = "open"
    THEN [raised |-> TRUE, disk |-> d]
    ELSE IF fail = "dump"
    THEN [raised |-> TRUE, disk |-> [d EXCEPT !.mapping = BadMappingFile]]
    ELSE [raised |-> FALSE, disk |-> [d EXCEPT !.mapping = json_dump(st.mapping)]]

save(st, d, fail) ==
    LET a == save_index(st, d, fail)
    IN  IF a.raised THEN a ELSE save_mapping(st, a.disk, fail)

\* load_if_exists with the loaded index assigned before its dimension is
\* compared
load_if_exists_assign_first(s, d) ==
    IF d.index.state = "none" \/ d.mapping.state = "none"
    THEN [ret |-> "False", s |-> s]
    ELSE IF d.index.state = "corrupt"
    THEN [ret |-> "raised", s |-> s]
    ELSE IF d.index.d # s.dim
    THEN [ret |-> "False", s |-> [s EXCEPT !.index = read_index(d.index)]]
    ELSE IF d.mapping.state = "corrupt"
    THEN [ret |-> "raised", s |-> [s EXCEPT !.index = read_index(d.index)]]
    ELSE [ret |-> "True",
          s |-> [s EXCEPT !.index = read_index(d.index), !.mapping = json_load(d.mapping)]]

\* load_if_exists: ret is "True", "False" or "raised"
load_if_exists(s, d) ==
    IF d.index.state = "none" \/ d.mapping.state = "none"
    THEN [ret |-> "False", s |-> s]
    ELSE IF d.index.state = "corrupt"
    THEN [ret |-> "raised", s |-> s]
    ELSE IF d.index.d # s.dim
    THEN [ret |-> "False", s |-> s]
    ELSE IF d.mapping.state = "corrupt"
    THEN [ret |-> "raised", s |-> [s EXCEPT !.index = read_index(d.index)]]
    ELSE [ret |-> "True",
          s |-> [s EXCEPT !.index = read_index(d.index), !.mapping = json_load(d.mapping)]]

\* np.stack of the items' vectors needs them all of one shape
stack_ok(items) == \A i, j \in 1..Len(items) : Len(items[i][2]) = Len(items[j][2])

ItemVecs(items) == [i \in 1..Len(items) |-> items[i][2]]
ItemIds(items) == [i \in 1..Len(items) |-> items[i][1]]

\* rebuild that keeps what the store held
rebuild_reset_keep(s) == s

\* rebuild that empties the mapping and forgets to replace the index
rebuild_reset_mapping_only(s) == [s EXCEPT !.mapping = <<>>]

\* rebuild, line by line: the index and the mapping are replaced first,
\* the vectors are added in one batch, then the mapping is assigned
rebuild_reset(s) == [s EXCEPT !.index = IndexFlatIP(s.dim), !.mapping = <<>>]

rebuild_add(s, items) == [s EXCEPT !.index = index_add(@, ItemVecs(items), ItemIds(items))]

\* rebuild with the ids assigned in the reverse of the given order
rebuild_map_reversed(s, items) ==
    [s EXCEPT !.mapping = [i \in 1..Len(items) |-> items[Len(items) + 1 - i][1]]]

rebuild_map(s, items) == [s EXCEPT !.mapping = ItemIds(items)]

rebuild(s, items) ==
    LET s0 == rebuild_reset(s)
    IN  IF items = <<>>
        THEN [raised |-> FALSE, s |-> s0]
        ELSE IF ~stack_ok(items) \/ ~index_add_ok(s0.index, ItemVecs(items))
        THEN [raised |-> TRUE, s |-> s0]
        ELSE [raised |-> FALSE, s |-> rebuild_map(rebuild_add(s0, items), items)]

\* add, line by line: the vector goes into the index, then the id into the
\* mapping
add_vector(s, product_id, vector) ==
    [s EXCEPT !.index = index_add(@, <<vector>>, <<product_id>>)]

add_id(s, product_id) == [s EXCEPT !.mapping = Append(@, product_id)]

\* add with the id appended before the vector is handed to the index
add_id_first(s, product_id, vector) ==
    IF ~index_add_ok(s.index, <<vector>>)
    THEN [raised |-> TRUE, s |-> add_id(s, product_id)]
    ELSE [raised |-> FALSE, s |-> add_id(add_vector(s, product_id, vector), product_id)]

\* add with the vector cut or zero-padded to the dimension of the store
add_fitting(s, product_id, vector) ==
    LET fitted == [j \in 1..s.dim |-> IF j <= Len(vector) THEN vector[j] ELSE 0]
    IN  [raised |-> FALSE, s |-> add_id(add_vector(s, product_id, fitted), product_id)]

add(s, product_id, vector) ==
    IF ~index_add_ok(s.index, <<vector>>)
    THEN [raised |-> TRUE, s |-> s]
    ELSE [raised |-> FALSE, s |-> add_id(add_vector(s, product_id, vector), product_id)]

\* search: every result the call can give.  A position beyond the mapping
\* makes self.mapping[idx] raise IndexError.
search(s, vector, top_k) ==
    IF Len(s.mapping) = 0
    THEN {[raised |-> FALSE, results |-> <<>>]}
    ELSE IF Len(vector) # s.index.d \/ top_k <= 0
    THEN {[raised |-> TRUE, results |-> <<>>]}
    ELSE {IF \E i \in DOMAIN I : I[i] > Len(s.mapping)
          THEN [raised |-> TRUE, results |-> <<>>]
          ELSE [raised |-> FALSE,
                results |-> [i \in DOMAIN I |->
                                <<s.mapping[I[i]], Score(s.index, vector, I[i])>>]]
          : I \in IndexSearch(s.index, vector, top_k)}

----------------------------------------------------------------------------
(* SpecStore and SpecPersist: one store, one caller.  SpecStore calls the *)
(* in-memory methods, SpecPersist the methods that build a store, save it *)
(* and load it back.                                                      *)

VARIABLES
    s,       \* the FaissIndexStore under test
    disk,    \* products_index.bin and mapping.json
    call,    \* the last call: its name, arguments and result, and whether
             \* it repeats the call before it
    saved    \* the store as it was when save last returned

svars == <<s, call, saved>>

\* The application's state (Spec)
VARIABLES
    source,           \* the products table and product_details.sql
    heap,             \* the FaissIndexStore objects, by identity
    _index,           \* the published store: 0 for None, else its identity
    _index_ready,
    _index_progress,  \* {"total", "processed"}
    _index_error,
    init,             \* the _init_index thread: where it is, its locals
    task,             \* the rebuild_index._task threads
    fg,               \* the request being handled: where it is, its locals
    resp,             \* the response to the last request
    nreq              \* requests handled so far

avars == <<source, heap, _index, _index_ready, _index_progress, _index_error,
           init, task, fg, resp, nreq>>

vars == <<s, disk, call, saved, source, heap, _index, _index_ready,
          _index_progress, _index_error, init, task, fg, resp, nreq>>

\* largest number of background rebuilds (GET /rebuild) of a run
MaxTasks == 1
\* largest number of other requests of a run
MaxReqs == 1
\* longest product_details.sql, in rows
MaxRows == 2
\* batch_threshold of _init_index, scaled from the code's 30 to the
\* catalogs of the model
batch_threshold == 1

Tasks == 1..MaxTasks
InitStore == 1
TaskStore(t) == 1 + t
StoreIds == 1..(1 + MaxTasks)

\* int(get_embedding_dim()): the dimension of the model in use
get_embedding_dim == CHOOSE d \in Dims : \A e \in Dims : d >= e

Idle == [pc |-> "idle", op |-> "none", pid |-> 0, items |-> <<>>, store |-> 0]
NoResp == [op |-> "none", status |-> 0, out |-> <<>>]

\* the module globals as the import leaves them, no thread started
AppIdle ==
    /\ source = [primary |-> <<>>, dump |-> <<>>, bad |-> FALSE]
    /\ heap = [x \in StoreIds |-> FaissIndexStore(get_embedding_dim)]
    /\ _index = 0
    /\ _index_ready = FALSE
    /\ _index_progress = [total |-> 0, processed |-> 0]
    /\ _index_error = ""
    /\ init = [pc |-> "start", i |-> 0, store |-> 0]
    /\ task = [t \in Tasks |-> [pc |-> "idle", i |-> 0, items |-> <<>>]]
    /\ fg = Idle
    /\ resp = NoResp
    /\ nreq = 0

NoCall == [op |-> "none", arg |-> <<>>, ret |-> "ok", out |-> <<>>, again |-> FALSE]
NotSaved == [valid |-> FALSE, s |-> FaissIndexStore(1)]

SInit ==
    /\ s = FaissIndexStore(1)
    /\ disk = EmptyDisk
    /\ call = [NoCall EXCEPT !.op = "new"]
    /\ saved = NotSaved
    /\ AppIdle

\* a fresh store is constructed and replaces the one in hand
SNew(dim) ==
    /\ s' = FaissIndexStore(dim)
    /\ call' = [NoCall EXCEPT !.op = "new", !.arg = <<dim>>]
    /\ UNCHANGED <<disk, saved, avars>>

\* the code calls load_if_exists on a store it has just constructed
SLoad ==
    /\ call.op = "new"
    /\ LET r == load_if_exists(s, disk)
       IN  /\ s' = r.s
           /\ call' = [NoCall EXCEPT !.op = "load", !.ret = r.ret]
    /\ UNCHANGED <<disk, saved, avars>>

SAdd(product_id, vector) ==
    /\ Len(s.index.xb) < MaxLen /\ Len(s.mapping) < MaxLen
    /\ LET r == add(s, product_id, vector)
       IN  /\ s' = r.s
           /\ call' = [NoCall EXCEPT !.op = "add", !.arg = <<product_id, vector>>,
                                      !.ret = IF r.raised THEN "raised" ELSE "ok"]
    /\ UNCHANGED <<disk, saved, avars>>

SRebuild(items) ==
    /\ LET r == rebuild(s, items)
       IN  /\ s' = r.s
           /\ call' = [NoCall EXCEPT !.op = "rebuild", !.arg = items,
                                      !.ret = IF r.raised THEN "raised" ELSE "ok",
                                      !.again = (call.op = "rebuild" /\ call.arg = items)]
    /\ UNCHANGED <<disk, saved, avars>>

SSave(fail) ==
    /\ LET r == save(s, disk, fail)
       IN  /\ disk' = r.disk
           /\ call' = [NoCall EXCEPT !.op = "save",
                                      !.ret = IF r.raised THEN "raised" ELSE "ok"]
           /\ saved' = IF r.raised THEN NotSaved ELSE [valid |-> TRUE, s |-> s]
    /\ UNCHANGED <<s, avars>>

SSearch(vector, top_k) ==
    /\ \E r \in search(s, vector, top_k) :
           call' = [NoCall EXCEPT !.op = "search", !.arg = <<vector, top_k>>,
                                  !.ret = IF r.raised THEN "raised" ELSE "ok",
                                  !.out = r.results]
    /\ UNCHANGED <<s, disk, saved, avars>>

SNext ==
    \/ \E dim \in Dims : SNew(dim)
    \/ \E product_id \in Ids, vector \in AllVectors : SAdd(product_id, vector)
    \/ \E items \in ItemLists : SRebuild(items)
    \/ \E vector \in AllVectors, top_k \in 1..MaxK : SSearch(vector, top_k)

SpecStore == SInit /\ [][SNext]_vars

\* The stores SpecPersist saves are grown by add: the store rebuild(items)
\* leaves is the one the adds of its items leave on a fresh store, or the
\* fresh store when it raises.
PNext ==
    \/ \E dim \in Dims : SNew(dim)
    \/ SLoad
    \/ \E product_id \in Ids, vector \in AllVectors : SAdd(product_id, vector)
    \/ \E fail \in SaveFailures : SSave(fail)

SpecPersist == SInit /\ [][PNext]_vars

----------------------------------------------------------------------------
(* The application: its collaborators *)

Row(id, deleted) == [id |-> id, is_deleted |-> deleted]

\* the rows of product_details.sql: live rows, a soft-deleted row
\* (is_deleted = 1), and a row whose id is NULL
DumpRows == {Row(1, FALSE), Row(2, TRUE), Row(0, FALSE)}

\* the ids of the live rows of the products table, in key order: ids 1 to
\* n.  The empty table also stands for a database that cannot be reached,
\* which the callers of fetch_all_products and fetch_product turn into no
\* rows.
Tables == {[i \in 1..n |-> i] : n \in 0..Cardinality(Ids)}

\* a table with rows hides the dump; bad is a dump that cannot be decoded
Sources ==
    {[primary |-> q, dump |-> <<>>, bad |-> FALSE] : q \in Tables \ {<<>>}}
    \cup {[primary |-> <<>>, dump |-> d, bad |-> FALSE] : d \in SeqsUpTo(DumpRows, MaxRows)}
    \cup {[primary |-> <<>>, dump |-> <<>>, bad |-> TRUE]}

\* fetch_all_products: WHERE p.is_deleted = 0, and no is_deleted key in
\* the rows it returns
fetch_all_products(src) == [i \in 1..Len(src.primary) |-> Row(src.primary[i], FALSE)]

\* products = fetch_all_products(), or [] when it raises; if not products:
\* products = parse_product_rows_from_sql()
parse_raises(src) == src.primary = <<>> /\ src.bad

Products(src) ==
    IF src.primary # <<>> THEN fetch_all_products(src) ELSE src.dump

\* int(row.get("productId") or row.get("id")) raises on a row without id
pid_raises(row) == row.id = 0

\* get_embedding_for_product: the unit vector of the product
get_embedding_for_product(pid) ==
    [j \in 1..get_embedding_dim |-> IF j = ((pid - 1) % get_embedding_dim) + 1 THEN 1 ELSE 0]

\* what the data directory holds when the process starts: nothing, a store
\* saved by an earlier run, or that store with an index file that cannot be
\* read
StartDisks ==
    {EmptyDisk,
     save(add(FaissIndexStore(get_embedding_dim), 1, get_embedding_for_product(1)).s,
          EmptyDisk, "none").disk,
     [index |-> BadIndexFile, mapping |-> json_dump(<<1>>)]}

----------------------------------------------------------------------------
(* The application: _init_index, the start-up thread *)

Init ==
    /\ s = FaissIndexStore(1)
    /\ call = [NoCall EXCEPT !.op = "new"]
    /\ saved = NotSaved
    /\ AppIdle!2 /\ AppIdle!3 /\ AppIdle!4 /\ AppIdle!5 /\ AppIdle!6
    /\ AppIdle!7 /\ AppIdle!8 /\ AppIdle!9 /\ AppIdle!10 /\ AppIdle!11
    /\ source \in Sources
    /\ disk \in StartDisks

\* the ways a save of the application fails: the data directory cannot be
\* written to, and save raises before it writes
AppSaveIndexFailures == {"none", "makedirs"}
AppSaveMappingFailures == {"none"}

Bump(progress) == [progress EXCEPT !.processed = @ + 1]

\* lines 37-52: the dimension probe, the store, load_if_exists and, on a
\* miss, the fetch of the products.  probe_raises: get_model() raises.
InitStart(probe_raises) ==
    /\ init.pc = "start"
    /\ LET r == load_if_exists(FaissIndexStore(get_embedding_dim), disk)
       IN  IF probe_raises \/ r.ret = "raised"
           THEN \* raised outside the try: the thread ends
                /\ init' = [init EXCEPT !.pc = "dead"]
                /\ UNCHANGED <<heap, _index, _index_ready, _index_progress, _index_error>>
           ELSE IF r.ret = "True"
           THEN /\ heap' = [heap EXCEPT ![InitStore] = r.s]
                /\ _index' = InitStore
                /\ _index_ready' = TRUE
                /\ _index_progress' = [total |-> Len(r.s.mapping),
                                       processed |-> Len(r.s.mapping)]
                /\ init' = [init EXCEPT !.pc = "done"]
                /\ UNCHANGED _index_error
           ELSE IF parse_raises(source)
           THEN /\ _index_error' = "error"
                /\ init' = [init EXCEPT !.pc = "done"]
                /\ UNCHANGED <<heap, _index, _index_ready, _index_progress>>
           ELSE /\ init' = [init EXCEPT !.pc = "publish"]
                /\ UNCHANGED <<heap, _index, _index_ready, _index_progress, _index_error>>
    /\ UNCHANGED <<svars, disk, source, task, fg, resp, nreq>>

\* lines 54-55
InitPublish ==
    /\ init.pc = "publish"
    /\ _index' = InitStore
    /\ _index_progress' = [total |-> Len(Products(source)), processed |-> 0]
    /\ init' = [init EXCEPT !.pc = "loop", !.i = 0]
    /\ UNCHANGED <<svars, disk, source, heap, _index_ready, _index_error, task, fg, resp, nreq>>

\* the skip paths with the threshold check of lines 69-70 added to them
InitSkip_checks_threshold(embed_raises) ==
    /\ init.pc = "loop" /\ init.i < Len(Products(source))
    /\ LET row == Products(source)[init.i + 1]
       IN  row.is_deleted \/ pid_raises(row) \/ embed_raises
    /\ _index_progress' = Bump(_index_progress)
    /\ _index_ready' = (_index_ready \/ _index_progress'.processed >= batch_threshold)
    /\ init' = [init EXCEPT !.i = @ + 1]
    /\ UNCHANGED <<svars, disk, source, heap, _index, _index_error, task, fg, resp, nreq>>

\* a row whose id or embedding raises ending the build in the outer except
InitSkip_aborts(embed_raises) ==
    /\ init.pc = "loop" /\ init.i < Len(Products(source))
    /\ LET row == Products(source)[init.i + 1]
       IN  /\ row.is_deleted \/ pid_raises(row) \/ embed_raises
           /\ IF row.is_deleted
              THEN /\ _index_progress' = Bump(_index_progress)
                   /\ init' = [init EXCEPT !.i = @ + 1]
                   /\ UNCHANGED _index_error
              ELSE /\ _index_error' = "error"
                   /\ init' = [init EXCEPT !.pc = "done"]
                   /\ UNCHANGED _index_progress
    /\ UNCHANGED <<svars, disk, source, heap, _index, _index_ready, task, fg, resp, nreq>>

\* lines 62-64 and 71-73: a soft-deleted row, and a row whose id or
\* embedding raises: the counter advances and the loop goes on
InitSkip(embed_raises) ==
    /\ init.pc = "loop" /\ init.i < Len(Products(source))
    /\ LET row == Products(source)[init.i + 1]
       IN  row.is_deleted \/ pid_raises(row) \/ embed_raises
    /\ _index_progress' = Bump(_index_progress)
    /\ init' = [init EXCEPT !.i = @ + 1]
    /\ UNCHANGED <<svars, disk, source, heap, _index, _index_ready, _index_error,
                   task, fg, resp, nreq>>

\* lines 65-67, down to line 57 of add: the vector goes into the index of
\* the store _index names at the call
InitAddVector ==
    /\ init.pc = "loop" /\ init.i < Len(Products(source))
    /\ LET row == Products(source)[init.i + 1]
       IN  /\ ~row.is_deleted /\ ~pid_raises(row)
           /\ heap' = [heap EXCEPT ![_index] =
                          add_vector(@, row.id, get_embedding_for_product(row.id))]
    /\ init' = [init EXCEPT !.pc = "add_id", !.store = _index]
    /\ UNCHANGED <<svars, disk, source, _index, _index_ready, _index_progress, _index_error,
                   task, fg, resp, nreq>>

\* line 58 of add, then lines 68-70
InitAddId ==
    /\ init.pc = "add_id"
    /\ heap' = [heap EXCEPT ![init.store] = add_id(@, Products(source)[init.i + 1].id)]
    /\ _index_progress' = Bump(_index_progress)
    /\ _index_ready' = (_index_ready \/ _index_progress'.processed >= batch_threshold)
    /\ init' = [init EXCEPT !.pc = "loop", !.i = @ + 1, !.store = 0]
    /\ UNCHANGED <<svars, disk, source, _index, _index_error, task, fg, resp, nreq>>

\* line 75
InitReady ==
    /\ init.pc = "loop" /\ init.i = Len(Products(source))
    /\ _index_ready' = TRUE
    /\ init' = [init EXCEPT !.pc = "save"]
    /\ UNCHANGED <<svars, disk, source, heap, _index, _index_progress, _index_error,
                   task, fg, resp, nreq>>

\* line 76, first write of save, on the store _index names at the call;
\* lines 77-78 when it raises
InitSaveIndex(fail) ==
    /\ init.pc = "save"
    /\ LET r == save_index(heap[_index], disk, fail)
       IN  /\ disk' = r.disk
           /\ init' = IF r.raised THEN [init EXCEPT !.pc = "done"]
                      ELSE [init EXCEPT !.pc = "save2", !.store = _index]
           /\ _index_error' = IF r.raised THEN "error" ELSE _index_error
    /\ UNCHANGED <<svars, source, heap, _index, _index_ready, _index_progress,
                   task, fg, resp, nreq>>

\* line 76, second write of save
InitSaveMapping(fail) ==
    /\ init.pc = "save2"
    /\ LET r == save_mapping(heap[init.store], disk, fail)
       IN  /\ disk' = r.disk
           /\ _index_error' = IF r.raised THEN "error" ELSE _index_error
    /\ init' = [init EXCEPT !.pc = "done", !.store = 0]
    /\ UNCHANGED <<svars, source, heap, _index, _index_ready, _index_progress,
                   task, fg, resp, nreq>>

InitThread ==
    \/ \E probe_raises \in BOOLEAN : InitStart(probe_raises)
    \/ InitPublish
    \/ \E embed_raises \in BOOLEAN : InitSkip(embed_raises)
    \/ InitAddVector
    \/ InitAddId
    \/ InitReady
    \/ \E fail \in AppSaveIndexFailures : InitSaveIndex(fail)
    \/ \E fail \in AppSaveMappingFailures : InitSaveMapping(fail)

----------------------------------------------------------------------------
(* The application: GET /rebuild and its _task thread *)

\* lines 182-185: the handler clears the flag and starts the thread
TaskStart(t) ==
    /\ task[t].pc = "idle"
    /\ \A u \in Tasks : u < t => task[u].pc # "idle"
    /\ _index_ready' = FALSE
    /\ task' = [task EXCEPT ![t].pc = "begin"]
    /\ UNCHANGED <<svars, disk, source, heap, _index, _index_progress, _index_error,
                   init, fg, resp, nreq>>

\* lines 179-181
TaskExcept(t) ==
    /\ _index_error' = "error"
    /\ _index_ready' = TRUE
    /\ task' = [task EXCEPT ![t].pc = "done"]

\* the items the loop of lines 161-174 collects when the embeddings of the
\* rows at the positions in failed raise; is_deleted is not looked at
TaskItems(products, failed) ==
    LET kept == {i \in 1..Len(products) : ~pid_raises(products[i]) /\ i \notin failed}
        RECURSIVE Collect(_)
        Collect(i) ==
            IF i > Len(products) THEN <<>>
            ELSE (IF i \in kept
                  THEN <<<<products[i].id, get_embedding_for_product(products[i].id)>>>>
                  ELSE <<>>) \o Collect(i + 1)
    IN  Collect(1)

\* the task with its new store published as soon as it is constructed
TaskBegin_publishes(t, probe_raises, failed) ==
    /\ task[t].pc = "begin"
    /\ IF probe_raises \/ parse_raises(source)
       THEN TaskExcept(t) /\ UNCHANGED <<heap, _index, _index_progress>>
       ELSE /\ heap' = [heap EXCEPT ![TaskStore(t)] = FaissIndexStore(get_embedding_dim)]
            /\ _index' = TaskStore(t)
            /\ _index_progress' = [total |-> Len(Products(source)),
                                   processed |-> Len(Products(source))]
            /\ task' = [task EXCEPT ![t] = [pc |-> "rows", i |-> Len(Products(source)),
                                            items |-> TaskItems(Products(source), failed)]]
            /\ UNCHANGED <<_index_ready, _index_error>>
    /\ UNCHANGED <<svars, disk, source, init, fg, resp, nreq>>

\* lines 151-174: the probe, the new store, the fetch, the progress record
\* and the loop over the rows, which touches nothing shared but the
\* counter: every row advances it by one
TaskBegin(t, probe_raises, failed) ==
    /\ task[t].pc = "begin"
    /\ IF probe_raises \/ parse_raises(source)
       THEN TaskExcept(t) /\ UNCHANGED <<heap, _index_progress>>
       ELSE /\ heap' = [heap EXCEPT ![TaskStore(t)] = FaissIndexStore(get_embedding_dim)]
            /\ _index_progress' = [total |-> Len(Products(source)),
                                   processed |-> Len(Products(source))]
            /\ task' = [task EXCEPT ![t] = [pc |-> "rows", i |-> Len(Products(source)),
                                            items |-> TaskItems(Products(source), failed)]]
            /\ UNCHANGED <<_index_ready, _index_error>>
    /\ UNCHANGED <<svars, disk, source, _index, init, fg, resp, nreq>>

\* the task going on to publish after a save that raised
TaskSaveIndex_ignores_failure(t, fail) ==
    /\ task[t].pc = "rows" /\ task[t].i = Len(Products(source))
    /\ LET b == rebuild(heap[TaskStore(t)], task[t].items)
           r == save_index(b.s, disk, fail)
       IN  /\ heap' = [heap EXCEPT ![TaskStore(t)] = b.s]
           /\ IF b.raised
              THEN TaskExcept(t) /\ UNCHANGED disk
              ELSE /\ disk' = r.disk
                   /\ task' = [task EXCEPT ![t].pc = "save2"]
                   /\ UNCHANGED <<_index_ready, _index_error>>
    /\ UNCHANGED <<svars, source, _index, _index_progress, init, fg, resp, nreq>>

\* lines 175-176: store.rebuild(items) and the first write of store.save()
TaskSaveIndex(t, fail) ==
    /\ task[t].pc = "rows" /\ task[t].i = Len(Products(source))
    /\ LET b == rebuild(heap[TaskStore(t)], task[t].items)
           r == save_index(b.s, disk, fail)
       IN  /\ heap' = [heap EXCEPT ![TaskStore(t)] = b.s]
           /\ IF b.raised
              THEN TaskExcept(t) /\ UNCHANGED disk
              ELSE /\ disk' = r.disk
                   /\ IF r.raised
                      THEN TaskExcept(t)
                      ELSE /\ task' = [task EXCEPT ![t].pc = "save2"]
                           /\ UNCHANGED <<_index_ready, _index_error>>
    /\ UNCHANGED <<svars, source, _index, _index_progress, init, fg, resp, nreq>>

\* line 176, second write of store.save()
TaskSaveMapping(t, fail) ==
    /\ task[t].pc = "save2"
    /\ LET r == save_mapping(heap[TaskStore(t)], disk, fail)
       IN  /\ disk' = r.disk
           /\ IF r.raised
              THEN TaskExcept(t)
              ELSE /\ task' = [task EXCEPT ![t].pc = "publish"]
                   /\ UNCHANGED <<_index_ready, _index_error>>
    /\ UNCHANGED <<svars, source, heap, _index, _index_progress, init, fg, resp, nreq>>

\* line 177
TaskPublish(t) ==
    /\ task[t].pc = "publish"
    /\ _index' = TaskStore(t)
    /\ task' = [task EXCEPT ![t].pc = "ready"]
    /\ UNCHANGED <<svars, disk, source, heap, _index_ready, _index_progress, _index_error,
                   init, fg, resp, nreq>>

\* line 178
TaskReady(t) ==
    /\ task[t].pc = "ready"
    /\ _index_ready' = TRUE
    /\ task' = [task EXCEPT ![t].pc = "done"]
    /\ UNCHANGED <<svars, disk, source, heap, _index, _index_progress, _index_error,
                   init, fg, resp, nreq>>

TaskThread(t) ==
    \/ \E probe_raises \in BOOLEAN, failed \in SUBSET (1..Len(Products(source))) :
           TaskBegin(t, probe_raises, failed)
    \/ \E fail \in AppSaveIndexFailures : TaskSaveIndex(t, fail)
    \/ \E fail \in AppSaveMappingFailures : TaskSaveMapping(t, fail)
    \/ TaskPublish(t)
    \/ TaskReady(t)

\* SpecRebuilds: the start-up thread and several GET /rebuild in a row,
\* each with its task, and no other request
\* largest number of background rebuilds of a run of SpecRebuilds
MaxRebuilds == 2
Rebuilds == 1..MaxRebuilds

RInit ==
    /\ s = FaissIndexStore(1)
    /\ call = [NoCall EXCEPT !.op = "new"]
    /\ saved = NotSaved
    /\ source \in Sources
    /\ disk \in StartDisks
    /\ heap = [x \in 1..(1 + MaxRebuilds) |-> FaissIndexStore(get_embedding_dim)]
    /\ task = [t \in Rebuilds |-> [pc |-> "idle", i |-> 0, items |-> <<>>]]
    /\ AppIdle!3 /\ AppIdle!4 /\ AppIdle!5 /\ AppIdle!6 /\ AppIdle!7
    /\ AppIdle!9 /\ AppIdle!10 /\ AppIdle!11

RNext ==
    \/ InitThread
    \/ \E t \in Rebuilds : TaskStart(t)
    \/ \E t \in Rebuilds : TaskThread(t)

SpecRebuilds == RInit /\ [][RNext]_vars

----------------------------------------------------------------------------
(* The application: the request handlers *)

Respond(op, status, out) ==
    /\ resp' = [op |-> op, status |-> status, out |-> out]
    /\ fg' = Idle

\* a request arrives while no other is being handled
Arrives ==
    /\ fg.pc = "idle"
    /\ nreq < MaxReqs
    /\ nreq' = nreq + 1

\* fetch_product: WHERE id = %s AND is_deleted = 0
HasRow(pid) == \E i \in 1..Len(source.primary) : source.primary[i] = pid

\* add_product, lines 91-98
AddStart(product_id, embed_raises) ==
    /\ Arrives
    /\ IF ~_index_ready THEN Respond("add", 503, <<>>)
       ELSE IF ~HasRow(product_id) THEN Respond("add", 404, <<>>)
       ELSE IF embed_raises THEN Respond("add", 500, <<>>)
       ELSE /\ fg' = [Idle EXCEPT !.pc = "add_vector", !.op = "add", !.pid = product_id]
            /\ resp' = NoResp
    /\ UNCHANGED <<svars, disk, source, heap, _index, _index_ready, _index_progress,
                   _index_error, init, task>>

\* add_product, line 99, down to line 57 of add; None has no add
AddVector ==
    /\ fg.pc = "add_vector"
    /\ IF _index = 0
       THEN Respond("add", 500, <<>>) /\ UNCHANGED heap
       ELSE /\ heap' = [heap EXCEPT ![_index] =
                           add_vector(@, fg.pid, get_embedding_for_product(fg.pid))]
            /\ fg' = [fg EXCEPT !.pc = "add_id", !.store = _index]
            /\ UNCHANGED resp
    /\ UNCHANGED <<svars, disk, source, _index, _index_ready, _index_progress, _index_error,
                   init, task, nreq>>

\* line 58 of add
AddId ==
    /\ fg.pc = "add_id"
    /\ heap' = [heap EXCEPT ![fg.store] = add_id(@, fg.pid)]
    /\ fg' = [fg EXCEPT !.pc = "save", !.store = 0]
    /\ UNCHANGED <<svars, disk, source, _index, _index_ready, _index_progress, _index_error,
                   init, task, resp, nreq>>

\* the subsequence of q at the positions in keep
RECURSIVE Pick(_, _, _)
Pick(q, keep, i) ==
    IF i > Len(q) THEN <<>>
    ELSE (IF i \in keep THEN <<q[i]>> ELSE <<>>) \o Pick(q, keep, i + 1)

Embedded(ids) == [i \in 1..Len(ids) |-> <<ids[i], get_embedding_for_product(ids[i])>>]

\* delete_product, line 112
remaining_ids(mapping, product_id) ==
    Pick(mapping, {i \in 1..Len(mapping) : mapping[i] # product_id}, 1)

\* delete_product, lines 115-128: the rows of the remaining ids, from the
\* table or, when it gives none, from the dump (is_deleted is not looked at)
DeleteRows(remaining) ==
    LET fromTable == {pid \in Range(remaining) : HasRow(pid)}
    IN  IF fromTable # {} THEN fromTable
        ELSE {pid \in Range(remaining) :
                 \E i \in 1..Len(source.dump) : source.dump[i].id = pid}

\* the dump is parsed only when the table gave no row; int(row.get("id"))
\* raises on a row without id
DeleteFallbackRaises(remaining) ==
    /\ \A pid \in Range(remaining) : ~HasRow(pid)
    /\ \/ parse_raises(source)
       \/ \E i \in 1..Len(source.dump) : source.dump[i].id = 0

\* delete_product, lines 110-139; failed: the positions of remaining_ids
\* whose embedding raises
DeleteStart(product_id, failed) ==
    /\ Arrives
    /\ IF ~_index_ready THEN Respond("delete", 503, <<>>)
       ELSE IF _index = 0 THEN Respond("delete", 500, <<>>)
       ELSE LET remaining == remaining_ids(heap[_index].mapping, product_id)
                rows == DeleteRows(remaining)
                kept == {i \in 1..Len(remaining) : remaining[i] \in rows /\ i \notin failed}
            IN  IF DeleteFallbackRaises(remaining) THEN Respond("delete", 500, <<>>)
                ELSE /\ fg' = [Idle EXCEPT !.pc = "reset", !.op = "delete",
                                           !.pid = product_id,
                                           !.items = Embedded(Pick(remaining, kept, 1))]
                     /\ resp' = NoResp
    /\ UNCHANGED <<svars, disk, source, heap, _index, _index_ready, _index_progress,
                   _index_error, init, task>>

\* rebuild (POST /rebuild), lines 224-244; failed: the positions of the
\* products whose embedding raises
RebuildStart(failed) ==
    /\ Arrives
    /\ IF ~_index_ready THEN Respond("rebuild", 503, <<>>)
       ELSE IF parse_raises(source) THEN Respond("rebuild", 500, <<>>)
       ELSE LET products == Products(source)
                kept == {i \in 1..Len(products) :
                            /\ ~products[i].is_deleted
                            /\ products[i].id # 0
                            /\ i \notin failed}
            IN  /\ fg' = [Idle EXCEPT !.pc = "reset", !.op = "rebuild",
                                      !.items = Embedded([i \in 1..Len(Pick(products, kept, 1)) |->
                                                             Pick(products, kept, 1)[i].id])]
                /\ resp' = NoResp
    /\ UNCHANGED <<svars, disk, source, heap, _index, _index_ready, _index_progress,
                   _index_error, init, task>>

\* _index.rebuild(items), lines 141 and 245, down to lines 46-47 of rebuild
FgReset ==
    /\ fg.pc = "reset"
    /\ IF _index = 0
       THEN Respond(fg.op, 500, <<>>) /\ UNCHANGED heap
       ELSE /\ heap' = [heap EXCEPT ![_index] = rebuild_reset(@)]
            /\ fg' = [fg EXCEPT !.pc = IF fg.items = <<>> THEN "save" ELSE "fill",
                                !.store = _index]
            /\ UNCHANGED resp
    /\ UNCHANGED <<svars, disk, source, _index, _index_ready, _index_progress, _index_error,
                   init, task, nreq>>

\* lines 49-51 of rebuild
FgFill ==
    /\ fg.pc = "fill"
    /\ heap' = [heap EXCEPT ![fg.store] = rebuild_map(rebuild_add(@, fg.items), fg.items)]
    /\ fg' = [fg EXCEPT !.pc = "save", !.store = 0]
    /\ UNCHANGED <<svars, disk, source, _index, _index_ready, _index_progress, _index_error,
                   init, task, resp, nreq>>

\* _index.save(), lines 100, 142 and 246: the first write
FgSaveIndex(fail) ==
    /\ fg.pc = "save"
    /\ LET r == save_index(heap[_index], disk, fail)
       IN  /\ disk' = r.disk
           /\ IF r.raised
              THEN Respond(fg.op, 500, <<>>)
              ELSE fg' = [fg EXCEPT !.pc = "save2", !.store = _index] /\ UNCHANGED resp
    /\ UNCHANGED <<svars, source, heap, _index, _index_ready, _index_progress, _index_error,
                   init, task, nreq>>

\* the second write, and the response
FgSaveMapping(fail) ==
    /\ fg.pc = "save2"
    /\ LET r == save_mapping(heap[fg.store], disk, fail)
       IN  /\ disk' = r.disk
           /\ IF r.raised
              THEN Respond(fg.op, 500, <<>>)
              ELSE Respond(fg.op, 200, <<>>)
    /\ UNCHANGED <<svars, source, heap, _index, _index_ready, _index_progress, _index_error,
                   init, task, nreq>>

\* get_embedding_for_query: the query about product q
get_embedding_for_query(q) == get_embedding_for_product(q)

\* search with the query looked at before the readiness flag
Search_query_first(query, top_k) ==
    /\ Arrives
    /\ IF query = 0 THEN Respond("search", 400, <<>>)
       ELSE IF ~_index_ready THEN Respond("search", 503, <<>>)
       ELSE IF _index = 0 THEN Respond("search", 500, <<>>)
       ELSE \E r \in search(heap[_index], get_embedding_for_query(query), top_k) :
                IF r.raised THEN Respond("search", 500, <<>>)
                ELSE Respond("search", 200, r.results)
    /\ UNCHANGED <<svars, disk, source, heap, _index, _index_ready, _index_progress,
                   _index_error, init, task>>

\* search (POST /search), lines 195-219; query 0 is the empty string
Search(query, top_k) ==
    /\ Arrives
    /\ IF ~_index_ready THEN Respond("search", 503, <<>>)
       ELSE IF query = 0 THEN Respond("search", 400, <<>>)
       ELSE IF _index = 0 THEN Respond("search", 500, <<>>)
       ELSE \E r \in search(heap[_index], get_embedding_for_query(query), top_k) :
                IF r.raised THEN Respond("search", 500, <<>>)
                ELSE Respond("search", 200, r.results)
    /\ UNCHANGED <<svars, disk, source, heap, _index, _index_ready, _index_progress,
                   _index_error, init, task>>

Handlers ==
    \/ \E product_id \in Ids, embed_raises \in BOOLEAN : AddStart(product_id, embed_raises)
    \/ AddVector
    \/ AddId
    \/ \E product_id \in Ids, failed \in SUBSET (1..MaxRows) : DeleteStart(product_id, failed)
    \/ \E failed \in SUBSET (1..MaxRows) : RebuildStart(failed)
    \/ FgReset
    \/ FgFill
    \/ \E fail \in AppSaveIndexFailures : FgSaveIndex(fail)
    \/ \E fail \in AppSaveMappingFailures : FgSaveMapping(fail)
    \/ \E query \in {0} \cup Ids, top_k \in 1..MaxK : Search(query, top_k)

Next ==
    \/ InitThread
    \/ \E t \in Tasks : TaskStart(t)
    \/ \E t \in Tasks : TaskThread(t)
    \/ Handlers

Spec == Init /\ [][Next]_vars

----------------------------------------------------------------------------
(* Properties of FaissIndexStore *)

\* the index and the mapping of a store agree: as many ids as vectors, and
\* the id at each position is the one supplied with the vector there
InLockStep(st) ==
    /\ Len(st.index.xb) = Len(st.mapping)
    /\ st.mapping = st.index.owner

\* C1: after every add and rebuild call on one store, whether it returned
\* or raised, the index holds as many vectors as the mapping holds ids, and
\* mapping[i] is the id that was supplied with the i-th vector of the index.
C1_LockStep == InLockStep(s)

\* a failed add on a store that holds vectors
C1_Witness ==
    /\ call.op = "add" /\ call.ret = "raised"
    /\ Len(s.mapping) = MaxLen - 1
    /\ Len(s.index.xb) = MaxLen - 1

\* the ids a search of st can return, over every query and every top_k
SearchIds(st) ==
    UNION {{r.results[i][1] : i \in DOMAIN r.results} :
           r \in UNION {search(st, q, k) : q \in Vectors(st.index.d), k \in 1..MaxK}}

\* C4: a rebuild whose items exclude id p leaves a mapping without p, and
\* from then on no search returns p for any query and any top_k, until an
\* add of p or a rebuild whose items include p.
C4_DeletedStaysDeleted ==
    [][\A p \in Ids :
        /\ (call'.op = "rebuild" /\ p \notin Range(ItemIds(call'.arg)))
               => (p \notin Range(s'.mapping) /\ p \notin SearchIds(s'))
        /\ (/\ p \notin Range(s.mapping)
            /\ ~(call'.op = "add" /\ call'.arg[1] = p)
            /\ ~(call'.op = "rebuild" /\ p \in Range(ItemIds(call'.arg))))
               => (p \notin Range(s'.mapping) /\ p \notin SearchIds(s'))
        /\ (call'.op = "search" /\ p \notin Range(s.mapping))
               => \A i \in DOMAIN call'.out : call'.out[i][1] # p]_vars

\* a search that returns results from a store rebuilt without some id
C4_Witness ==
    /\ call.op = "search" /\ call.ret = "ok" /\ call.out # <<>>
    /\ \E p \in Ids : p \notin Range(s.mapping)

\* C5: save followed by load_if_exists on a fresh store of the same dim
\* returns True with the saved mapping and, at each position, the saved
\* vector, so that every search gives what it gave before the save.
C5_SaveLoadRoundTrip ==
    (call.op = "load" /\ saved.valid /\ saved.s.dim = s.dim) =>
        /\ call.ret = "True"
        /\ s.mapping = saved.s.mapping
        /\ s.index.xb = saved.s.index.xb
        /\ \A q \in Vectors(s.dim), k \in 1..MaxK :
               search(s, q, k) = search(saved.s, q, k)

\* a load of a saved store of two different vectors
C5_Witness ==
    /\ call.op = "load" /\ saved.valid /\ saved.s.dim = s.dim
    /\ Len(saved.s.mapping) = MaxLen
    /\ s.dim > 1
    /\ saved.s.index.xb[1] # saved.s.index.xb[MaxLen]

\* C6: load_if_exists on a store whose dim differs from the dimension of
\* the persisted index returns False and leaves the index and the mapping
\* of the store as they were.
C6_DimensionGuard ==
    [][(/\ call'.op = "load"
        /\ disk.index.state = "ok" /\ disk.mapping.state # "none"
        /\ disk.index.d # s.dim)
           => (call'.ret = "False" /\ s' = s)]_vars

\* a load that met a persisted index of another dimension, holding vectors
C6_Witness ==
    /\ call.op = "load" /\ call.ret = "False"
    /\ disk.index.state = "ok" /\ disk.mapping.state # "none"
    /\ disk.index.d # s.dim
    /\ disk.index.ntotal > 0
    /\ s = FaissIndexStore(s.dim)

\* C7: rebuild(items) called again with the same items leaves the mapping
\* and the stored vectors as the first call left them, and ends the same
\* way, whatever the store held before the first call.
C7_RebuildIdempotent ==
    [][(call'.op = "rebuild" /\ call'.again)
           => (s' = s /\ call'.ret = call.ret)]_vars

\* a rebuild repeated with the same non-empty items
C7_Witness ==
    /\ call.op = "rebuild" /\ call.again /\ call.ret = "ok"
    /\ Len(s.mapping) = MaxLen

\* the positions of st's index from the best score to the worst, equal
\* scores by ascending position
RECURSIVE RankFrom(_, _, _)
RankFrom(st, q, left) ==
    IF left = {} THEN <<>>
    ELSE LET best == CHOOSE p \in left : \A o \in left :
                         \/ Score(st.index, q, p) > Score(st.index, q, o)
                         \/ Score(st.index, q, p) = Score(st.index, q, o) /\ p <= o
         IN  <<best>> \o RankFrom(st, q, left \ {best})

Ranking(st, q) == RankFrom(st, q, 1..Len(st.index.xb))

\* C8: search(vector, k) on a store of n vectors returns min(k, n) results,
\* the min(k, n) best-scoring positions as (mapping[pos], score), in
\* descending score and, among equal scores, ascending position.
C8_TopKAscendingTies ==
    (call.op = "search" /\ call.ret = "ok" /\ InLockStep(s)) =>
        LET q == call.arg[1]
            k == call.arg[2]
            n == Len(s.index.xb)
            R == Ranking(s, q)
        IN  call.out = [i \in 1..Min(k, n) |->
                           <<s.mapping[R[i]], Score(s.index, q, R[i])>>]

\* what the code does give: min(k, n) results of distinct positions among
\* the best, in descending score, the order of equal scores left open
C8_TopKAnyTies ==
    (call.op = "search" /\ call.ret = "ok" /\ InLockStep(s)) =>
        LET q == call.arg[1]
            k == call.arg[2]
            n == Len(s.index.xb)
        IN  /\ Len(call.out) = Min(k, n)
            /\ \E I \in IndexSearch(s.index, q, k) :
                   call.out = [i \in DOMAIN I |->
                                  <<s.mapping[I[i]], Score(s.index, q, I[i])>>]
            /\ \A i, j \in DOMAIN call.out :
                   i < j => call.out[i][2] >= call.out[j][2]

----------------------------------------------------------------------------
(* Properties of the application *)

\* what a read of _index gives: the identity of the published store and
\* what that store holds
Published ==
    IF _index = 0 THEN [id |-> 0, store |-> FaissIndexStore(get_embedding_dim)]
    ELSE [id |-> _index, store |-> heap[_index]]

\* st holds exactly the items, in lock-step
BuiltFrom(st, items) ==
    /\ st.mapping = ItemIds(items)
    /\ st.index.xb = ItemVecs(items)
    /\ InLockStep(st)

NoTask == \A t \in Tasks : task[t].pc = "idle"

\* C3 as claimed: during the initial build, once processed has reached the
\* threshold the flag is set, whichever way the record that reached it was
\* handled.
C3_ReadyAtThreshold ==
    (/\ NoTask /\ init.pc \in {"loop", "add_id"}
     /\ batch_threshold < Len(Products(source))
     /\ _index_progress.processed >= batch_threshold)
        => _index_ready

\* C3, amended: during the initial build a record sets the flag exactly
\* when it is indexed and processed has then reached the threshold; a
\* soft-deleted or failed record advances processed and leaves the flag as
\* it is.  The loop goes on to the last record, whether or not the flag is
\* set, and line 75 sets it at the latest.
C3_ReadyAtIndexedRecord ==
    [][/\ (init'.i = init.i + 1) =>
              /\ _index_progress'.processed = _index_progress.processed + 1
              /\ _index_ready' =
                     (_index_ready \/ (/\ init.pc = "add_id"
                                       /\ _index_progress'.processed >= batch_threshold))
       /\ (init.pc = "loop" /\ init'.pc = "save") =>
              /\ init'.i = Len(Products(source))
              /\ _index_ready'
              /\ NoTask' => _index_progress'.processed = _index_progress'.total]_vars

\* the flag was set by the threshold while records remain, no rebuild ever
\* started
C3_Witness ==
    /\ NoTask /\ init.pc = "loop"
    /\ batch_threshold < Len(Products(source))
    /\ init.i < Len(Products(source))
    /\ _index_progress.processed >= batch_threshold
    /\ _index_ready

\* C9: whenever the readiness flag is set a store is published.
C9_ReadyImpliesPublished == _index_ready => _index # 0

\* C10: once the start-up build and every started background rebuild have
\* ended, returned or raised, the readiness flag is set.
C10_BuildsEndReady ==
    (/\ init.pc \in {"done", "dead"}
     /\ \A t \in Tasks : task[t].pc \in {"idle", "done"})
        => _index_ready

\* C11: a background rebuild assigns its store to _index only from the
\* point after save, which it reaches only by the two writes of a save that
\* returned, of a store that holds all the collected items; a task that
\* ends in its except branch leaves what a read of _index gives as it was,
\* and records the error.
C11_PublishAfterSave ==
    [][\A t \in Tasks :
          /\ (_index' = TaskStore(t) /\ _index # TaskStore(t)) =>
                 /\ task[t].pc = "publish"
                 /\ BuiltFrom(heap[TaskStore(t)], task[t].items)
          /\ (task'[t].pc = "publish" /\ task[t].pc # "publish") =>
                 /\ task[t].pc = "save2"
                 /\ disk'.mapping = json_dump(heap[TaskStore(t)].mapping)
          /\ (task'[t].pc = "save2" /\ task[t].pc # "save2") =>
                 /\ task[t].pc = "rows"
                 /\ BuiltFrom(heap'[TaskStore(t)], task[t].items)
                 /\ disk'.index = write_index(heap'[TaskStore(t)].index)
          /\ (task'[t].pc = "done" /\ task[t].pc \notin {"ready", "done"}) =>
                 /\ Published' = Published
                 /\ _index_error' # ""]_vars

\* a rebuild that collected items has failed in its save, and the store of
\* the start-up build is still the published one, with its ids
C11_Witness ==
    \E t \in Tasks :
        /\ task[t].pc = "done" /\ task[t].items # <<>>
        /\ _index = InitStore /\ _index_error # ""
        /\ Len(heap[InitStore].mapping) >= 1
        /\ InLockStep(heap[InitStore])

\* C12: while a background rebuild has been started and has not finished,
\* the readiness flag is false.
C12_NotReadyDuringRebuild ==
    (\E t \in Tasks : task[t].pc \notin {"idle", "done"}) => ~_index_ready

\* C13: the start-up build and a rebuild of a request (POST /rebuild or
\* delete_product) are never both part-way through a change of the same
\* store: the one between the two lines of add, the other between the
\* reset and the fill of rebuild.
C13_NoSharedBuild ==
    ~(/\ init.pc = "add_id"
      /\ fg.pc = "fill"
      /\ fg.store = init.store)

\* C14: load_if_exists either returns False and leaves the index and the
\* mapping of the store as they were, or returns True with a store of as
\* many vectors as ids, whatever the two files hold.
C14_LoadAllOrNothing ==
    [][call'.op = "load" =>
          \/ call'.ret = "False" /\ s' = s
          \/ call'.ret = "True" /\ Len(s'.index.xb) = Len(s'.mapping)]_vars


\* a step in which a save of the application raises: in the rebuild task,
\* in the start-up build, in a request handler
TaskSaveRaises(t) == task[t].pc \in {"rows", "save2"} /\ task'[t].pc = "done"
InitSaveRaises == init.pc = "save" /\ init'.pc = "done"
FgSaveRaises == fg.pc = "save" /\ fg'.pc = "idle"

\* C15: a save that fails is reported, to the caller as a 500 or in
\* _index_error, and it leaves a store published, unchanged, with the flag
\* set where the failing thread is the one to set it.
C15_SaveFailureKeepsStore ==
    [][/\ \A t \in Tasks :
              TaskSaveRaises(t) =>
                  /\ _index_error' # "" /\ _index_ready'
                  /\ _index' # 0 /\ Published' = Published
       /\ InitSaveRaises =>
              /\ _index_error' # ""
              /\ _index' # 0 /\ Published' = Published
       /\ FgSaveRaises =>
              /\ resp'.status = 500
              /\ _index' # 0 /\ Published' = Published]_vars

\* what the code does give: the same, for a rebuild task that fails in its
\* save, only where a store was published before
C15_SaveFailureKeepsPublished ==
    [][/\ \A t \in Tasks :
              TaskSaveRaises(t) =>
                  /\ _index_error' # "" /\ _index_ready'
                  /\ Published' = Published
       /\ InitSaveRaises =>
              /\ _index_error' # ""
              /\ _index' # 0 /\ Published' = Published
       /\ FgSaveRaises =>
              /\ resp'.status = 500
              /\ _index' # 0 /\ Published' = Published]_vars

\* C16: add with a vector whose length is not the dim of the store raises
\* and leaves the index and the mapping as they were.
C16_AddWrongDimension ==
    [][(call'.op = "add" /\ Len(call'.arg[2]) # s.dim)
           => (call'.ret = "raised" /\ s' = s)]_vars

\* a wrong-length add has raised on a store that holds a vector
C16_Witness ==
    /\ call.op = "add" /\ call.ret = "raised"
    /\ Len(call.arg[2]) # s.dim
    /\ Len(s.index.xb) >= 1 /\ InLockStep(s)

\* C17: a request to add_product, delete_product, rebuild (POST) or search
\* that arrives while the readiness flag is false is answered 503, whatever
\* else is wrong with it, and changes neither the stores, nor which store
\* is published, nor the files, nor the progress record.
C17_NotReadyIs503 ==
    [][(nreq' # nreq /\ ~_index_ready) =>
           /\ resp'.status = 503
           /\ resp'.op \in {"add", "delete", "rebuild", "search"}
           /\ fg' = Idle
           /\ UNCHANGED <<heap, _index, disk, _index_progress>>]_vars

\* a delete was answered 503 while a store with ids was published and the
\* flag was false
C17_Witness ==
    /\ resp.op = "delete" /\ resp.status = 503
    /\ ~_index_ready
    /\ _index # 0 /\ Len(heap[InitStore].mapping) >= 1

\* a is b with some of its elements left out
RECURSIVE IsSubSeq(_, _)
IsSubSeq(a, b) ==
    IF a = <<>> THEN TRUE
    ELSE IF b = <<>> THEN FALSE
    ELSE IF Head(a) = Head(b) THEN IsSubSeq(Tail(a), Tail(b))
    ELSE IsSubSeq(a, Tail(b))

\* the ids of the rows that can be indexed, in source order
LiveIds(products) ==
    LET keep == {i \in 1..Len(products) : ~products[i].is_deleted /\ ~pid_raises(products[i])}
        live == Pick(products, keep, 1)
    IN  [i \in 1..Len(live) |-> live[i].id]

\* C18: in the start-up build every record, indexed, soft-deleted or
\* failed, advances processed by one and the loop goes on to the next; a
\* record that embedded has its vector and then its id appended, a skipped
\* one appends nothing; the loop ends only after the last record.  With no
\* rebuild and no request beside it, the build ends with processed equal to
\* total and a mapping, in lock-step with the index, of ids of indexable
\* records in source order.
C18_FailedRecordSkipped ==
    /\ [][LET row == Products(source)[init.i + 1]
          IN  /\ (init.pc = "loop" /\ init'.pc = "add_id") =>
                     /\ ~row.is_deleted
                     /\ heap'[_index].index =
                            index_add(heap[_index].index,
                                      <<get_embedding_for_product(row.id)>>, <<row.id>>)
              /\ (init'.i = init.i + 1) =>
                     /\ _index_progress'.processed = _index_progress.processed + 1
                     /\ init'.pc = "loop"
                     /\ init.pc = "add_id" =>
                            heap'[init.store].mapping = Append(heap[init.store].mapping, row.id)
                     /\ init.pc = "loop" => heap' = heap
              /\ (init.pc = "loop" /\ init'.pc \notin {"loop", "add_id"}) =>
                     /\ init.i = Len(Products(source))
                     /\ init'.pc = "save"]_vars
    /\ []((NoTask /\ nreq = 0 /\ init.pc \in {"save", "save2"}) =>
              /\ _index_progress.processed = _index_progress.total
              /\ _index_progress.total = Len(Products(source))
              /\ InLockStep(heap[InitStore])
              /\ IsSubSeq(heap[InitStore].mapping, LiveIds(Products(source))))

\* a build alone has ended whose first record had no id and whose second
\* was indexed
C18_Witness ==
    /\ NoTask /\ nreq = 0 /\ init.pc = "save"
    /\ Len(Products(source)) = 2
    /\ pid_raises(Products(source)[1])
    /\ heap[InitStore].mapping = <<Products(source)[2].id>>
    /\ _index_progress.processed = 2

\* C19: the published mapping holds no id of a source record that is
\* soft-deleted.
C19_NoSoftDeletedIndexed ==
    _index # 0 =>
        \A i \in DOMAIN heap[_index].mapping :
            ~\E j \in DOMAIN Products(source) :
                /\ Products(source)[j].id = heap[_index].mapping[i]
                /\ Products(source)[j].is_deleted

\* C20: a search that meets a published store holding more vectors than
\* ids (an add has appended the vector and not yet the id) does not fail:
\* it is answered, with results from positions that have an id.
C20_SearchSkipsUnmapped ==
    [][(/\ nreq' # nreq /\ resp'.op = "search"
        /\ _index_ready /\ _index # 0
        /\ Len(heap[_index].mapping) < Len(heap[_index].index.xb))
           => resp'.status \in {200, 400}]_vars

\* C21: the rebuild of a request (POST /rebuild, delete_product) first
\* leaves the store empty, nothing of what it held surviving, and stops
\* there for no items; else it appends the items' vectors in the given
\* order and assigns the items' ids in that order as the mapping, which on
\* the store as the reset left it gives exactly the items.  The handler
\* answers 200 only after both writes of save, of the index and of the
\* mapping.
C21_RebuildReplaces ==
    [][/\ (fg.pc = "reset" /\ fg'.pc \in {"fill", "save"}) =>
              /\ heap'[_index] = FaissIndexStore(heap[_index].dim)
              /\ (fg'.pc = "save") = (fg.items = <<>>)
       /\ (fg.pc = "fill" /\ fg'.pc = "save") =>
              /\ heap'[fg.store].mapping = ItemIds(fg.items)
              /\ heap'[fg.store].index.xb =
                     heap[fg.store].index.xb \o ItemVecs(fg.items)
              /\ heap[fg.store] = FaissIndexStore(heap[fg.store].dim) =>
                     BuiltFrom(heap'[fg.store], fg.items)
       /\ (fg.op \in {"rebuild", "delete"} /\ fg.pc = "save" /\ fg'.pc = "save2") =>
              disk'.index = write_index(heap[_index].index)
       /\ (fg.op \in {"rebuild", "delete"} /\ fg'.pc = "idle" /\ resp'.status = 200) =>
              /\ fg.pc = "save2"
              /\ disk'.mapping = json_dump(heap[fg.store].mapping)]_vars

\* a rebuild of two items, alone, has been answered 200, and the files hold
\* the store
C21_Witness ==
    /\ resp.op = "rebuild" /\ resp.status = 200
    /\ init.pc = "done" /\ NoTask
    /\ heap[_index].mapping = <<1, 2>> /\ InLockStep(heap[_index])
    /\ disk.mapping = json_dump(heap[_index].mapping)
    /\ disk.index = write_index(heap[_index].index)

\* the same of the method itself, whatever the store held: a rebuild that
\* returns leaves exactly the items, one that raises leaves the store empty
C21_StoreRebuildReplaces ==
    [][call'.op = "rebuild" =>
          IF call'.ret = "ok" THEN BuiltFrom(s', call'.arg)
          ELSE s' = FaissIndexStore(s.dim)]_vars

\* C23: a load on a fresh store, after the process stopped anywhere, a
\* save between or in its writes included, that returns True restores the
\* store of one save: the two files come from the same save, so that the
\* ids loaded are, position by position, the ids that were supplied with
\* the vectors loaded.
C23_LoadRestoresOneSave ==
    (call.op = "load" /\ call.ret = "True") =>
        /\ s.mapping = s.index.owner
        /\ Len(s.mapping) = Len(s.index.xb)

\* C24: the items delete_product(p) hands to rebuild are those of the
\* mapping with every p left out, the other ids all there and in their
\* order, whichever row fetch or embedding fails.
C24_DeleteRemovesOnlyP ==
    [][(fg.pc = "idle" /\ fg'.pc = "reset" /\ fg'.op = "delete") =>
           ItemIds(fg'.items) = remaining_ids(heap[_index].mapping, fg'.pid)]_vars

\* C25: the progress record always has 0 <= processed <= total, and
\* processed = total whenever a build has ended and none is running.
C25_ProgressWithinTotal ==
    /\ 0 <= _index_progress.processed
    /\ _index_progress.processed <= _index_progress.total
    /\ (/\ init.pc \in {"start", "done", "dead"}
        /\ \A t \in Tasks : task[t].pc \in {"idle", "done"}
        /\ init.pc = "done" \/ \E t \in Tasks : task[t].pc = "done")
           => _index_progress.processed = _index_progress.total

\* no thread is at work and no request is being handled
Quiescent ==
    /\ init.pc \in {"done", "dead"}
    /\ \A t \in Tasks : task[t].pc \in {"idle", "done"}
    /\ fg.pc = "idle"

\* C26: when nothing is at work, nothing has failed and a store is
\* published, the two files hold that store: its vectors and its mapping.
C26_DiskIsPublishedStore ==
    (/\ Quiescent
     /\ _index_error = "" /\ resp.status # 500
     /\ _index # 0)
        => /\ disk.index = write_index(heap[_index].index)
           /\ disk.mapping = json_dump(heap[_index].mapping)

\* C22: of two background rebuilds, once the later-started one has ended
\* with its store published, the earlier one, still running, changes
\* neither which store is published nor the files: its result is
\* discarded.
C22_EarlierRebuildDiscarded ==
    [][\A u, t \in Rebuilds :
          (/\ u < t
           /\ task[t].pc = "done" /\ _index = TaskStore(t)
           /\ task[u].pc \notin {"idle", "done"}
           /\ task'[u] # task[u])
              => (_index' = _index /\ disk' = disk)]_vars

====
